---- MODULE Spec2Model ----
(***************************************************************************)
(* Model of src/index.py: a Streamlit script that loads a CSV (uploaded or *)
(* the default file), sniffs its decoding and delimiter, cleans the table  *)
(* with clean_data and renders metrics, filters, charts and exports.       *)
(*                                                                         *)
(* A table (DataFrame) is a record [cols, dtypes, rows]: the set of column *)
(* names, the dtype of each column and the sequence of rows, each row a    *)
(* function from column name to cell.  A cell is a record [k, s, n]: a     *)
(* string (k = "str", s its characters), a number (k = "num", n its value) *)
(* or missing (k = "nan").                                                 *)
(***************************************************************************)
EXTENDS Integers, Sequences, FiniteSets, TLC

VARIABLES
    uploaded,       \* input: st.file_uploader returned a file (line 98)
    text,           \* input: the decoded text the delimiter is sniffed from
    decodeOutcome,  \* input: what decoding with the detected encoding does
    parseOutcome,   \* input: what pd.read_csv does on the decoded text
    parsed,         \* input: the table pd.read_csv yields when it succeeds
    pc,             \* position of the script
    dfState,        \* "unbound", "None" or "frame": what the name df holds
    df,             \* the DataFrame bound to df (when dfState = "frame")
    delimitador,    \* [site, line, value] of the delimiter detection that ran
    attempts,       \* the encodings decoding was attempted with, in order
    err,            \* the exception that ended the run, or "none"
    messages,       \* st.success / st.error calls of the load step
    raw,            \* the argument of the latest clean_data call
    dedup,          \* df after line 68 of the latest clean_data call
    coerced,        \* df after line 74 of the latest clean_data call
    cleaned,        \* the table the latest clean_data call returned
    cleanCalls,     \* number of clean_data invocations
    rendered,       \* widgets drawn after the load step: [w, refs]
    filter_params,  \* the filter selections of tab2
    df_filtrado,    \* the filtered copy of tab2
    chartDf,        \* the table handed to the charts of tab3
    exportFormat,   \* the export format chosen in tab4
    exportDf        \* the table handed to the serializer in tab4

vars == <<uploaded, text, decodeOutcome, parseOutcome, parsed, pc, dfState, df,
          delimitador, attempts, err, messages, raw, dedup, coerced, cleaned,
          cleanCalls, rendered, filter_params, df_filtrado, chartDf, exportFormat,
          exportDf>>

(***************************************************************************)
(* Bounds of the model.                                                    *)
(***************************************************************************)
MaxRows == 3
MaxText == 3
MaxRuns == 2

(***************************************************************************)
(* Cells and strings.                                                      *)
(***************************************************************************)
Str(s) == [k |-> "str", s |-> s, n |-> 0]
Num(n) == [k |-> "num", s |-> <<>>, n |-> n]
NaN == [k |-> "nan", s |-> <<>>, n |-> 0]

IsSpace(c) == c \in {" ", "\t"}
UpperChar(c) == IF c = "a" THEN "A" ELSE IF c = "b" THEN "B" ELSE c

\* str.upper() of one string
str_upper(s) == [i \in 1..Len(s) |-> UpperChar(s[i])]

RECURSIVE lstrip(_)
lstrip(s) == IF Len(s) > 0 /\ IsSpace(Head(s)) THEN lstrip(Tail(s)) ELSE s

RECURSIVE rstrip(_)
rstrip(s) ==
    IF Len(s) > 0 /\ IsSpace(s[Len(s)]) THEN rstrip(SubSeq(s, 1, Len(s) - 1)) ELSE s

\* str.strip() of one string
str_strip(s) == rstrip(lstrip(s))

\* Series.str.strip().str.upper() on one cell: non-strings come out missing
str_strip_upper(c) ==
    IF c.k = "str" THEN Str(str_upper(str_strip(c.s))) ELSE NaN

Digits == {"0", "1", "2", "3", "4", "5", "6", "7", "8", "9"}
DigitVal(c) ==
    CASE c = "0" -> 0 [] c = "1" -> 1 [] c = "2" -> 2 [] c = "3" -> 3 [] c = "4" -> 4
      [] c = "5" -> 5 [] c = "6" -> 6 [] c = "7" -> 7 [] c = "8" -> 8 [] c = "9" -> 9

RECURSIVE ParseDigits(_)
ParseDigits(s) ==
    IF Len(s) = 0 THEN 0
    ELSE 10 * ParseDigits(SubSeq(s, 1, Len(s) - 1)) + DigitVal(s[Len(s)])

\* a cell that does not parse becomes 0 instead of missing
to_numeric_fill_zero(c) ==
    IF c.k # "str" THEN c
    ELSE LET t == str_strip(c.s)
         IN IF Len(t) > 0 /\ \A i \in 1..Len(t) : t[i] \in Digits
            THEN Num(ParseDigits(t)) ELSE Num(0)

\* pd.to_numeric(..., errors='coerce') on one cell
to_numeric(c) ==
    IF c.k # "str" THEN c
    ELSE LET t == str_strip(c.s)
         IN IF Len(t) > 0 /\ \A i \in 1..Len(t) : t[i] \in Digits
            THEN Num(ParseDigits(t)) ELSE NaN

(***************************************************************************)
(* clean_data (lines 66-82).                                               *)
(***************************************************************************)
numeric_cols == {"AÑO", "PRECIO", "MEDIA", "PUNTUACIÓN"}
text_cols == {"TÍTULO", "GÉNERO", "PLATAFORMA", "DESARROLLADOR"}

EmptyTable == [cols |-> {}, dtypes |-> <<>>, rows |-> <<>>]

\* rows with the duplicates of an earlier row removed (keep='first')
KeepFirst(rows) ==
    LET F[i \in 0..Len(rows)] ==
            IF i = 0 THEN <<>>
            ELSE IF \E j \in 1..(i - 1) : rows[j] = rows[i]
                 THEN F[i - 1] ELSE Append(F[i - 1], rows[i])
    IN F[Len(rows)]

\* keep='last': a row is dropped when a later row equals it
KeepLast(rows) ==
    LET F[i \in 0..Len(rows)] ==
            IF i = 0 THEN <<>>
            ELSE IF \E j \in (i + 1)..Len(rows) : rows[j] = rows[i]
                 THEN F[i - 1] ELSE Append(F[i - 1], rows[i])
    IN F[Len(rows)]

\* keep=False: every row that has a duplicate is dropped
KeepNone(rows) ==
    LET F[i \in 0..Len(rows)] ==
            IF i = 0 THEN <<>>
            ELSE IF \E j \in 1..Len(rows) : j # i /\ rows[j] = rows[i]
                 THEN F[i - 1] ELSE Append(F[i - 1], rows[i])
    IN F[Len(rows)]

\* line 68 with keep='last', with keep=False, and with its result dropped
drop_duplicates_keep_last(t) == [t EXCEPT !.rows = KeepLast(t.rows)]
drop_duplicates_keep_false(t) == [t EXCEPT !.rows = KeepNone(t.rows)]
drop_duplicates_not_assigned(t) == t

\* line 68: df = df.drop_duplicates()
drop_duplicates(t) == [t EXCEPT !.rows = KeepFirst(t.rows)]

\* lines 71-74: every present numeric column goes through pd.to_numeric
coerce_numeric(t) ==
    [cols |-> t.cols,
     dtypes |-> [c \in t.cols |-> IF c \in numeric_cols THEN "float64" ELSE t.dtypes[c]],
     rows |-> [i \in 1..Len(t.rows) |->
                 [c \in t.cols |-> IF c \in numeric_cols
                                   THEN to_numeric(t.rows[i][c])
                                   ELSE t.rows[i][c]]]]

\* line 80: the .str accessor raises AttributeError on a column whose dtype
\* is not object
str_accessor_raises(t) ==
    \E c \in t.cols \cap text_cols : t.dtypes[c] # "object"

\* lines 77-80: every present text column is stripped and upper-cased
normalize_text(t) ==
    [t EXCEPT !.rows = [i \in 1..Len(t.rows) |->
        [c \in t.cols |-> IF c \in text_cols
                          THEN str_strip_upper(t.rows[i][c])
                          ELSE t.rows[i][c]]]]

\* the exception clean_data(t) ends with, or "none"
clean_data_err(t) == IF str_accessor_raises(t) THEN "AttributeError" ELSE "none"

\* the table clean_data(t) returns when it does not raise
clean_data(t) == normalize_text(coerce_numeric(drop_duplicates(t)))

(***************************************************************************)
(* Input tables.                                                           *)
(***************************************************************************)
\* all sequences over S of length at most n
SeqsUpTo(S, n) == UNION {[1..m -> S] : m \in 0..n}

\* the cells pd.read_csv can put in a column of the given dtype
TextCells == {Str(<<" ", "a", " ">>), Str(<<"A">>), NaN}
NumberTextCells == {Str(<<"2", "0">>), Str(<<"a">>), Str(<<>>), NaN}
FloatCells == {Num(20), NaN}

ColumnCells(c, dtype) ==
    IF dtype = "float64" THEN FloatCells
    ELSE IF c \in numeric_cols THEN NumberTextCells ELSE TextCells

\* the rows over the columns cs whose cells fit the dtypes dt
RowsOver(cs, dt) ==
    {r \in [cs -> TextCells \cup NumberTextCells \cup FloatCells] :
        \A c \in cs : r[c] \in ColumnCells(c, dt[c])}

RichCols == {"GÉNERO", "AÑO"}
Dtypes == {"object", "float64"}

(***************************************************************************)
(* The cleaning pipeline applied on its own, and again to its own result.  *)
(***************************************************************************)
NoFilter == [genero |-> [k |-> "absent", s |-> <<>>],
             plataforma |-> [k |-> "absent", s |-> <<>>],
             rango |-> [k |-> "absent", lo |-> 0, hi |-> 0]]
NoDelimiter == [site |-> "none", line |-> <<>>, value |-> "unset"]

\* what every run of the script starts from
FreshRun ==
    /\ pc = "start"
    /\ dfState = "unbound"
    /\ df = EmptyTable
    /\ delimitador = NoDelimiter
    /\ attempts = <<>>
    /\ err = "none"
    /\ messages = <<>>
    /\ raw = EmptyTable /\ dedup = EmptyTable /\ coerced = EmptyTable
    /\ cleaned = EmptyTable
    /\ cleanCalls = 0
    /\ rendered = {}
    /\ filter_params = NoFilter
    /\ df_filtrado = EmptyTable
    /\ chartDf = EmptyTable
    /\ exportFormat = "none"
    /\ exportDf = EmptyTable

InitClean ==
    /\ uploaded = FALSE /\ text = <<>> /\ decodeOutcome = "ok" /\ parseOutcome = "ok"
    /\ parsed = EmptyTable
    /\ pc = "pure"
    /\ dfState = "frame"
    /\ \E m \in 0..MaxRows, dt \in [RichCols -> Dtypes] :
         \E rs \in [1..m -> RowsOver(RichCols, dt)] :
            \* pd.read_csv types every column of a table without rows as object
            /\ m = 0 => \A c \in RichCols : dt[c] = "object"
            /\ df = [cols |-> RichCols, dtypes |-> dt, rows |-> rs]
    /\ delimitador = NoDelimiter
    /\ attempts = <<>>
    /\ err = "none"
    /\ messages = <<>>
    /\ raw = EmptyTable /\ dedup = EmptyTable /\ coerced = EmptyTable
    /\ cleaned = EmptyTable
    /\ cleanCalls = 0
    /\ rendered = {}
    /\ filter_params = NoFilter
    /\ df_filtrado = EmptyTable
    /\ chartDf = EmptyTable
    /\ exportFormat = "none"
    /\ exportDf = EmptyTable

\* line 115 (or the function applied on its own, pc = "pure"):
\* df = clean_data(df) returns
CleanData ==
    /\ pc \in {"clean", "pure"} /\ err = "none" /\ cleanCalls < MaxRuns
    /\ dfState = "frame"
    /\ clean_data_err(df) = "none"
    /\ raw' = df
    /\ dedup' = drop_duplicates(df)
    /\ coerced' = coerce_numeric(drop_duplicates(df))
    /\ cleaned' = clean_data(df)
    /\ df' = clean_data(df)
    /\ cleanCalls' = cleanCalls + 1
    /\ pc' = IF pc = "pure" THEN "pure" ELSE "sidebar"
    /\ UNCHANGED <<uploaded, text, decodeOutcome, parseOutcome, parsed, dfState,
                   delimitador, attempts, err, messages, rendered, filter_params,
                   df_filtrado, chartDf, exportFormat, exportDf>>

\* df = clean_data(df) raises at line 80, after lines 68 and 74 have run
CleanDataRaises ==
    /\ pc \in {"clean", "pure"} /\ err = "none" /\ cleanCalls < MaxRuns
    /\ dfState = "frame"
    /\ clean_data_err(df) # "none"
    /\ raw' = df
    /\ dedup' = drop_duplicates(df)
    /\ coerced' = coerce_numeric(drop_duplicates(df))
    /\ err' = clean_data_err(df)
    /\ cleanCalls' = cleanCalls + 1
    /\ pc' = IF pc = "pure" THEN "pure" ELSE "crashed"
    /\ UNCHANGED <<uploaded, text, decodeOutcome, parseOutcome, parsed, dfState, df,
                   delimitador, attempts, messages, cleaned, rendered, filter_params,
                   df_filtrado, chartDf, exportFormat, exportDf>>

NextClean == CleanData \/ CleanDataRaises

SpecClean == InitClean /\ [][NextClean]_vars

(***************************************************************************)
(* Delimiter sniffing (lines 23-25, 44-45, 56-57).                         *)
(***************************************************************************)
TextChars == {",", ";", "a", "\n", "\r"}

\* str.count(ch)
RECURSIVE count(_, _)
count(s, ch) ==
    IF Len(s) = 0 THEN 0
    ELSE (IF Head(s) = ch THEN 1 ELSE 0) + count(Tail(s), ch)

\* the length of the longest prefix of s that holds no character of ends
RECURSIVE PrefixLen(_, _)
PrefixLen(s, ends) ==
    IF Len(s) = 0 \/ Head(s) \in ends THEN 0 ELSE 1 + PrefixLen(Tail(s), ends)

\* StringIO.readline(): up to and including the first "\n"
readline_stringio(s) ==
    LET n == PrefixLen(s, {"\n"})
    IN IF n < Len(s) THEN SubSeq(s, 1, n + 1) ELSE s

\* readline() of a file opened in text mode (universal newlines): the line
\* ends at the first "\n", "\r" or "\r\n", which is handed over as "\n"
readline_file(s) ==
    LET n == PrefixLen(s, {"\n", "\r"})
    IN IF n < Len(s) THEN Append(SubSeq(s, 1, n), "\n") ELSE s

\* line 57 with >= for >
delimitador_latin1_ge(primera_linea) ==
    IF count(primera_linea, ",") >= count(primera_linea, ";") THEN "," ELSE ";"

\* line 25
delimitador_path(primera_linea) ==
    IF count(primera_linea, ",") > count(primera_linea, ";") THEN "," ELSE ";"

\* line 45
delimitador_upload(primera_linea) ==
    IF count(primera_linea, ",") > count(primera_linea, ";") THEN "," ELSE ";"

\* line 57
delimitador_latin1(primera_linea) ==
    IF count(primera_linea, ",") > count(primera_linea, ";") THEN "," ELSE ";"

(***************************************************************************)
(* The inputs of a session.                                                *)
(***************************************************************************)
Texts == SeqsUpTo(TextChars, MaxText)
HeaderText == <<"a", ";", "a", "\n">>

\* a table without designated columns
PlainTable ==
    [cols |-> {"ID"}, dtypes |-> [c \in {"ID"} |-> "object"],
     rows |-> <<[c \in {"ID"} |-> Str(<<"a">>)]>>]

WideRow1 ==
    [c \in numeric_cols \cup text_cols |->
        IF c \in numeric_cols THEN Num(20)
        ELSE IF c \in {"TÍTULO", "GÉNERO"} THEN Str(<<" ", "a", " ">>) ELSE Str(<<"A">>)]
WideRow2 ==
    [c \in numeric_cols \cup text_cols |->
        IF c = "AÑO" THEN Num(21)
        ELSE IF c \in numeric_cols THEN NaN
        ELSE IF c \in {"TÍTULO", "GÉNERO"} THEN Str(<<"b">>) ELSE Str(<<"A">>)]
WideRows == <<WideRow1, WideRow2>>

\* the first m template rows restricted to the columns cs, typed the way
\* pd.read_csv types them; with numericTitles the titles are numbers
WideTable(cs, m, numericTitles) ==
    [cols |-> cs,
     dtypes |-> [c \in cs |->
        IF m = 0 THEN "object"
        ELSE IF c \in numeric_cols \/ (numericTitles /\ c = "TÍTULO")
             THEN "float64" ELSE "object"],
     rows |-> [i \in 1..m |-> [c \in cs |->
        IF numericTitles /\ c = "TÍTULO" THEN Num(20) ELSE WideRows[i][c]]]]

WideTables ==
    {WideTable(cs, m, FALSE) : cs \in SUBSET (numeric_cols \cup text_cols),
                               m \in 0..Len(WideRows)}
    \cup {WideTable(cs, m, TRUE) : cs \in SUBSET (numeric_cols \cup text_cols),
                                   m \in 1..Len(WideRows)}

DecodeOutcomes == {"ok", "UnicodeDecodeError", "OtherError"}
ParseOutcomes == {"ok", "error"}

Init ==
    /\ \/ \* every text, on each of the three detection sites
          /\ text \in Texts
          /\ \E site \in {<<FALSE, "ok">>, <<TRUE, "ok">>, <<TRUE, "UnicodeDecodeError">>} :
                uploaded = site[1] /\ decodeOutcome = site[2]
          /\ parseOutcome = "ok"
          /\ parsed = PlainTable
       \/ \* every outcome of decoding and parsing, on both load paths
          /\ text = HeaderText
          /\ uploaded \in BOOLEAN
          /\ decodeOutcome \in DecodeOutcomes
          /\ parseOutcome \in ParseOutcomes
          /\ parsed \in {PlainTable, WideTable(numeric_cols \cup text_cols, 1, FALSE)}
       \/ \* every set of designated columns
          /\ text = HeaderText
          /\ uploaded = TRUE
          /\ decodeOutcome = "ok"
          /\ parseOutcome = "ok"
          /\ parsed \in WideTables
    /\ FreshRun

(***************************************************************************)
(* The script, step by step.                                               *)
(***************************************************************************)
envVars == <<uploaded, text, decodeOutcome, parseOutcome, parsed>>
cleanVars == <<raw, dedup, coerced, cleaned, cleanCalls>>
tabVars == <<filter_params, df_filtrado, chartDf, exportFormat, exportDf>>

\* lines 99-102 with load_uploaded_file (lines 30-63)
LoadUploadedFile ==
    /\ pc = "start" /\ uploaded
    /\ IF decodeOutcome = "ok"
       THEN \* lines 40-50
            /\ attempts' = <<"detected">>
            /\ delimitador' = [site |-> "upload", line |-> readline_stringio(text),
                               value |-> delimitador_upload(readline_stringio(text))]
            /\ IF parseOutcome = "ok"
               THEN /\ dfState' = "frame" /\ df' = parsed
                    /\ messages' = <<"success">>
                    /\ pc' = "clean" /\ err' = "none"
               ELSE \* read_csv raises something that is no UnicodeDecodeError
                    /\ pc' = "crashed" /\ err' = "ParserError"
                    /\ UNCHANGED <<dfState, df, messages>>
       ELSE IF decodeOutcome = "UnicodeDecodeError"
       THEN \* lines 51-63
            /\ attempts' = <<"detected", "latin1">>
            /\ delimitador' = [site |-> "latin1", line |-> readline_stringio(text),
                               value |-> delimitador_latin1(readline_stringio(text))]
            /\ IF parseOutcome = "ok"
               THEN /\ dfState' = "frame" /\ df' = parsed
                    /\ messages' = <<"success">>
               ELSE \* lines 61-63: st.error, return None; line 101 skips st.success
                    /\ dfState' = "None" /\ df' = df
                    /\ messages' = <<"error">>
            /\ pc' = "clean" /\ err' = "none"
       ELSE \* decode raises TypeError (no encoding detected) or LookupError
            /\ attempts' = <<"detected">>
            /\ pc' = "crashed" /\ err' = "TypeError"
            /\ UNCHANGED <<dfState, df, messages, delimitador>>
    /\ UNCHANGED <<envVars, cleanVars, rendered, tabVars>>

\* lines 104-112 with detect_file_properties (lines 16-27)
LoadDefaultFile ==
    /\ pc = "start" /\ ~uploaded
    /\ IF decodeOutcome = "ok"
       THEN /\ delimitador' = [site |-> "path", line |-> readline_file(text),
                               value |-> delimitador_path(readline_file(text))]
            /\ attempts' = <<"detected", "detected">>
            /\ IF parseOutcome = "ok"
               THEN /\ dfState' = "frame" /\ df' = parsed
                    /\ messages' = <<"success">>
                    /\ pc' = "clean"
               ELSE \* lines 110-112
                    /\ messages' = <<"error">>
                    /\ pc' = "stopped"
                    /\ UNCHANGED <<dfState, df>>
       ELSE \* line 24 raises; lines 110-112
            /\ attempts' = <<"detected">>
            /\ messages' = <<"error">>
            /\ pc' = "stopped"
            /\ UNCHANGED <<dfState, df, delimitador>>
    /\ UNCHANGED <<envVars, err, cleanVars, rendered, tabVars>>

\* line 115 when df is None: clean_data is entered and line 68 raises
CleanDataNone ==
    /\ pc = "clean" /\ dfState = "None"
    /\ cleanCalls' = cleanCalls + 1
    /\ err' = "AttributeError"
    /\ pc' = "crashed"
    /\ UNCHANGED <<envVars, dfState, df, delimitador, attempts, messages, raw, dedup,
                   coerced, cleaned, rendered, tabVars>>

Widget(w, refs) == [w |-> w, refs |-> refs]

NumbersOf(t, c) == {t.rows[i][c].n : i \in {j \in 1..Len(t.rows) : t.rows[j][c].k = "num"}}
\* Series.max() / Series.min(): missing when the column holds no number
HasMax(t, c) == NumbersOf(t, c) # {}
ColMax(t, c) == CHOOSE x \in NumbersOf(t, c) : \A y \in NumbersOf(t, c) : y <= x
ColMin(t, c) == CHOOSE x \in NumbersOf(t, c) : \A y \in NumbersOf(t, c) : x <= y

\* lines 118-123
Sidebar ==
    /\ pc = "sidebar"
    /\ IF "AÑO" \in df.cols /\ ~HasMax(df, "AÑO")
       THEN \* int(nan) at line 121
            /\ rendered' = rendered \cup {Widget("Total de Juegos", {})}
            /\ pc' = "crashed" /\ err' = "ValueError_int_nan"
       ELSE /\ rendered' = rendered
                \cup {Widget("Total de Juegos", {})}
                \cup (IF "AÑO" \in df.cols
                      THEN {Widget("Año más reciente", {"AÑO"})} ELSE {})
                \cup (IF "PRECIO" \in df.cols
                      THEN {Widget("Precio promedio", {"PRECIO"})} ELSE {})
            /\ pc' = "tab1" /\ err' = err
    /\ UNCHANGED <<envVars, dfState, df, delimitador, attempts, messages, cleanVars,
                   tabVars>>

\* lines 128-147
Tab1 ==
    /\ pc = "tab1"
    /\ rendered' = rendered \cup {Widget("Resumen General", {})}
    /\ pc' = "tab2"
    /\ UNCHANGED <<envVars, dfState, df, delimitador, attempts, err, messages, cleanVars,
                   tabVars>>

\* sorted(df[c].dropna().unique().tolist())
Options(t, c) == {t.rows[i][c].s : i \in {j \in 1..Len(t.rows) : t.rows[j][c].k = "str"}}

Selections(t, c) ==
    IF c \in t.cols
    THEN {[k |-> "all", s |-> <<>>]} \cup {[k |-> "value", s |-> o] : o \in Options(t, c)}
    ELSE {[k |-> "absent", s |-> <<>>]}

\* st.slider: a pair lo <= hi between the least and the greatest year
Ranges(t) ==
    IF "AÑO" \in t.cols
    THEN {r \in [k : {"range"},
                 lo : ColMin(t, "AÑO")..ColMax(t, "AÑO"),
                 hi : ColMin(t, "AÑO")..ColMax(t, "AÑO")] : r.lo <= r.hi}
    ELSE {[k |-> "absent", lo |-> 0, hi |-> 0]}

\* lines 172-179: the copy of t with the rows the three filters keep
apply_filters(t, fp) ==
    LET byGenero(r) == fp.genero.k = "value" => r["GÉNERO"] = Str(fp.genero.s)
        byPlataforma(r) == fp.plataforma.k = "value" => r["PLATAFORMA"] = Str(fp.plataforma.s)
        byRango(r) == fp.rango.k = "range" =>
                        /\ r["AÑO"].k = "num"
                        /\ r["AÑO"].n >= fp.rango.lo
                        /\ r["AÑO"].n <= fp.rango.hi
        F[i \in 0..Len(t.rows)] ==
            IF i = 0 THEN <<>>
            ELSE IF byGenero(t.rows[i]) /\ byPlataforma(t.rows[i]) /\ byRango(t.rows[i])
                 THEN Append(F[i - 1], t.rows[i]) ELSE F[i - 1]
    IN [t EXCEPT !.rows = F[Len(t.rows)]]

\* the filters applied to df itself
df_after_filters_in_place(t, filtrado) == filtrado

\* lines 172-179 assign df_filtrado only: df is what it was
df_after_filters(t, filtrado) == t

\* lines 149-184
Tab2 ==
    /\ pc = "tab2"
    /\ \E g \in Selections(df, "GÉNERO"), p \in Selections(df, "PLATAFORMA"),
          r \in Ranges(df) :
          LET fp == [genero |-> g, plataforma |-> p, rango |-> r]
          IN /\ filter_params' = fp
             /\ df_filtrado' = apply_filters(df, fp)
             /\ df' = df_after_filters(df, apply_filters(df, fp))
    /\ rendered' = rendered \cup {Widget("Exploración Interactiva", {})}
    /\ pc' = "tab3"
    /\ UNCHANGED <<envVars, dfState, delimitador, attempts, err, messages, cleanVars,
                   chartDf, exportFormat, exportDf>>

\* lines 186-209
Tab3 ==
    /\ pc = "tab3"
    /\ chartDf' = df
    /\ LET first == (IF "GÉNERO" \in df.cols
                     THEN {Widget("Distribución por Género", {"GÉNERO"})} ELSE {})
               \cup (IF "AÑO" \in df.cols
                     THEN {Widget("Juegos por Año", {"AÑO"})} ELSE {})
               \cup (IF "PLATAFORMA" \in df.cols
                     THEN {Widget("Top 10 Plataformas", {"PLATAFORMA"})} ELSE {})
       IN IF {"PRECIO", "MEDIA"} \subseteq df.cols
          THEN IF "TÍTULO" \in df.cols
               THEN /\ rendered' = rendered \cup first
                        \cup {Widget("Precio vs Puntuación", {"PRECIO", "MEDIA", "TÍTULO"})}
                    /\ pc' = "tab4" /\ err' = err
               ELSE \* px.scatter raises: hover_data names no column of df
                    /\ rendered' = rendered \cup first
                    /\ pc' = "crashed" /\ err' = "ValueError_not_a_column"
          ELSE /\ rendered' = rendered \cup first
               /\ pc' = "tab4" /\ err' = err
    /\ UNCHANGED <<envVars, dfState, df, delimitador, attempts, messages, cleanVars,
                   filter_params, df_filtrado, exportFormat, exportDf>>

\* lines 211-257
Tab4 ==
    /\ pc = "tab4"
    /\ \E f \in {"CSV", "Excel", "JSON"} : exportFormat' = f
    /\ exportDf' = df
    /\ rendered' = rendered \cup {Widget("Exportar Datos", {}), Widget("Notas", {})}
    /\ pc' = "done"
    /\ UNCHANGED <<envVars, dfState, df, delimitador, attempts, err, messages, cleanVars,
                   filter_params, df_filtrado, chartDf>>

\* any interaction runs the script again from its first line
Rerun ==
    /\ pc \in {"done", "crashed", "stopped"}
    /\ pc' = "start"
    /\ dfState' = "unbound"
    /\ df' = EmptyTable
    /\ delimitador' = NoDelimiter
    /\ attempts' = <<>>
    /\ err' = "none"
    /\ messages' = <<>>
    /\ raw' = EmptyTable /\ dedup' = EmptyTable /\ coerced' = EmptyTable
    /\ cleaned' = EmptyTable
    /\ cleanCalls' = 0
    /\ rendered' = {}
    /\ filter_params' = NoFilter
    /\ df_filtrado' = EmptyTable
    /\ chartDf' = EmptyTable
    /\ exportFormat' = "none"
    /\ exportDf' = EmptyTable
    /\ UNCHANGED envVars

Next ==
    \/ LoadUploadedFile
    \/ LoadDefaultFile
    \/ CleanData
    \/ CleanDataRaises
    \/ CleanDataNone
    \/ Sidebar
    \/ Tab1
    \/ Tab2
    \/ Tab3
    \/ Tab4
    \/ Rerun

Spec == Init /\ [][Next]_vars

(***************************************************************************)
(* Properties of clean_data, checked under SpecClean.                      *)
(***************************************************************************)
\* the latest clean_data call returned a table
Returned == cleanCalls >= 1 /\ err = "none"

\* out holds exactly the rows of src that equal no earlier row of src, in
\* the order they have in src
IsFirstOccurrences(src, out) ==
    LET keep == {i \in 1..Len(src) : \A j \in 1..(i - 1) : src[j] # src[i]}
    IN /\ Len(out) = Cardinality(keep)
       /\ \A k \in 1..Len(out) :
            out[k] = src[CHOOSE i \in keep : Cardinality({j \in keep : j <= i}) = k]

NoTwoRowsEqual(rows) ==
    \A i, j \in 1..Len(rows) : i # j => rows[i] # rows[j]

\* C1 (as stated): clean_data(clean_data(T)) has exactly the rows, order and
\* cell values of clean_data(T); the second run removes no row.
C1_Idempotent ==
    (cleanCalls >= 2 /\ err = "none") => df = raw

\* C1 (amended): a second run of clean_data on clean_data(T) changes no cell
\* value, no column and no order; it removes exactly the rows that equal an
\* earlier row of clean_data(T), keeping the first of each.
C1_SecondRunOnlyDeduplicates ==
    (cleanCalls >= 2 /\ err = "none") =>
        /\ df.cols = raw.cols
        /\ df.dtypes = raw.dtypes
        /\ IsFirstOccurrences(raw.rows, df.rows)

\* a second run that removed a row which coercion and normalisation had made
\* equal to an earlier one
C1_Witness ==
    /\ cleanCalls = 2 /\ err = "none"
    /\ Len(raw.rows) = 2 /\ raw.rows[1] = raw.rows[2]
    /\ df.rows = <<raw.rows[1]>>

\* C2 (as stated): the table clean_data returns holds no two rows that are
\* identical in every column.
C2_NoIdenticalRows ==
    Returned => NoTwoRowsEqual(df.rows)

\* C2 (amended): the rows of the returned table come one for one from input
\* rows that are pairwise different on their raw values; returned rows may
\* coincide only where their raw rows differed.
C2_NoRowsFromIdenticalInput ==
    Returned =>
        /\ Len(df.rows) = Len(dedup.rows)
        /\ NoTwoRowsEqual(dedup.rows)
        /\ \A i \in 1..Len(dedup.rows) : \E j \in 1..Len(raw.rows) : dedup.rows[i] = raw.rows[j]
        /\ \A i, j \in 1..Len(df.rows) :
             (i # j /\ df.rows[i] = df.rows[j]) => dedup.rows[i] # dedup.rows[j]

\* a returned table with two identical rows whose raw rows differed, after an
\* input that also held a true duplicate
C2_Witness ==
    /\ Returned /\ cleanCalls = 1
    /\ Len(raw.rows) = 3 /\ raw.rows[1] = raw.rows[2]
    /\ Len(df.rows) = 2 /\ df.rows[1] = df.rows[2]

\* C6: line 68 removes exactly the rows equal (on raw values) to an earlier
\* row, keeps the first occurrence of each and keeps the survivors in their
\* original order; the later steps add and remove no row.
C6_DedupKeepsFirstInOrder ==
    cleanCalls >= 1 =>
        /\ IsFirstOccurrences(raw.rows, dedup.rows)
        /\ dedup.cols = raw.cols
        /\ Returned => Len(df.rows) = Len(dedup.rows)

\* the rows [A, B, A] deduplicated to [A, B]
C6_Witness ==
    /\ Returned /\ cleanCalls = 1
    /\ Len(raw.rows) = 3 /\ raw.rows[1] = raw.rows[3] /\ raw.rows[1] # raw.rows[2]
    /\ dedup.rows = <<raw.rows[1], raw.rows[2]>>

IsTrimmedUpper(c) ==
    /\ c.k = "str"
    /\ \A i \in 1..Len(c.s) : c.s[i] \notin {"a", "b"}
    /\ Len(c.s) > 0 => ~IsSpace(c.s[1]) /\ ~IsSpace(c.s[Len(c.s)])

\* C7: for every present text column clean_data never raises, every string
\* cell becomes its trimmed upper-case form and every missing cell stays
\* missing, whatever cell types the parser produced.
C7_TextNormalizedNeverRaises ==
    cleanCalls >= 1 =>
        /\ err = "none"
        /\ \A c \in df.cols \cap text_cols : \A i \in 1..Len(df.rows) :
             /\ IsTrimmedUpper(df.rows[i][c]) \/ df.rows[i][c] = NaN
             /\ coerced.rows[i][c] = NaN => df.rows[i][c] = NaN

\* C8: coercion of the present numeric columns never raises; a cell that
\* parses as a number becomes that number, any other cell becomes missing, so
\* after line 74 (and in the returned table) the column holds only numbers
\* or missing.
C8_NumericCoercion ==
    cleanCalls >= 1 =>
        /\ err # "none" => str_accessor_raises(raw)
        /\ Len(coerced.rows) = Len(dedup.rows)
        /\ \A c \in raw.cols \cap numeric_cols : \A i \in 1..Len(coerced.rows) :
             LET in == dedup.rows[i][c]
                 out == coerced.rows[i][c]
             IN /\ out.k \in {"num", "nan"}
                /\ in.k \in {"num", "nan"} => out = in
                /\ in = Str(<<"2", "0">>) => out = Num(20)
                /\ in \in {Str(<<"a">>), Str(<<>>)} => out = NaN
                /\ Returned => df.rows[i][c] = out

\* the column ["20", "a", ""] coerced to [20, missing, missing]
C8_Witness ==
    /\ Returned /\ cleanCalls = 1
    /\ Len(dedup.rows) = 3
    /\ dedup.rows[1]["AÑO"] = Str(<<"2", "0">>)
    /\ dedup.rows[2]["AÑO"] = Str(<<"a">>)
    /\ dedup.rows[3]["AÑO"] = Str(<<>>)
    /\ df.rows[1]["AÑO"] = Num(20)
    /\ df.rows[2]["AÑO"] = NaN
    /\ df.rows[3]["AÑO"] = NaN

(***************************************************************************)
(* Properties of the load step and of rendering, checked under Spec.       *)
(***************************************************************************)
\* C3 (as stated): on both load paths a decode error of the detected
\* encoding is caught and followed by exactly one retry with Latin-1, and the
\* load fails only if that retry fails.
C3_DecodeErrorRetriedOnceWithLatin1 ==
    (pc # "start" /\ decodeOutcome = "UnicodeDecodeError") =>
        /\ attempts = <<"detected", "latin1">>
        /\ dfState # "frame" => parseOutcome = "error"

\* C4 (as stated): when the load produced no table (the upload loader
\* returned None, or the default-file load raised and stopped the script),
\* clean_data is never invoked and nothing after the load step is rendered.
C4_FailedLoadHaltsBeforeClean ==
    (dfState = "None" \/ pc = "stopped") =>
        /\ cleanCalls = 0
        /\ rendered = {}

\* the number of positions of s that hold ch
Occurrences(s, ch) == Cardinality({i \in 1..Len(s) : s[i] = ch})

\* the first line of s without its line end, for the line ends the site knows
FirstLine(s, ends) ==
    LET n == CHOOSE m \in 0..Len(s) :
                /\ \A i \in 1..m : s[i] \notin ends
                /\ m < Len(s) => s[m + 1] \in ends
    IN SubSeq(s, 1, n)

LineEnds(site) == IF site = "path" THEN {"\n", "\r"} ELSE {"\n"}

C9_AbsentColumnsOnlyOmitWidgets ==
    /\ err # "ValueError_not_a_column"
    /\ \A w \in rendered : w.refs \subseteq df.cols

\* C10: the filters of tab2 work on a copy: after any selection the table
\* the charts and the export read is the one clean_data returned.
C10_FiltersLeaveCleanTableUnchanged ==
    /\ pc \in {"tab1", "tab2", "tab3", "tab4", "done"} => df = cleaned
    /\ pc \in {"tab4", "done"} => chartDf = cleaned
    /\ pc = "done" => exportDf = cleaned

\* an export after a genre and a year filter that removed a row
C10_Witness ==
    /\ pc = "done"
    /\ filter_params.genero.k = "value"
    /\ filter_params.rango.k = "range" /\ filter_params.rango.lo = filter_params.rango.hi
    /\ Len(cleaned.rows) = 2 /\ Len(df_filtrado.rows) = 1
    /\ exportDf = cleaned /\ chartDf = cleaned

====
